---- MODULE Spec2Model ----
(***************************************************************************)
(* State-machine model of PubSubBus (src/pubsub.py): the registry          *)
(* `dispatch` (topic name -> set of data callbacks) and the three          *)
(* operations create_topic, subscribe and publish.                         *)
(*                                                                         *)
(* publish runs callbacks, and a callback may call back into the bus, so   *)
(* an in-flight publish is a frame on a call stack: the frame holds the    *)
(* arguments of the call and the state of the set iterator of the `for`    *)
(* statement (the size of the set when the iterator was created and the    *)
(* elements it has not produced yet).  A CPython set iterator raises       *)
(* RuntimeError from its next() as soon as the size of the set differs     *)
(* from the size it was created with; the `for` statement is outside the   *)
(* try/except of the loop body, so that error leaves publish.              *)
(*                                                                         *)
(* What a callback does when it is invoked is an input: it returns, it     *)
(* raises, or it first calls create_topic / subscribe / publish.  One      *)
(* callable, sub_cb_invalid of the test suite, takes one argument only,    *)
(* so calling it with (topic_name, data) raises TypeError before its body  *)
(* runs.                                                                   *)
(***************************************************************************)
EXTENDS Naturals, Integers, Sequences, FiniteSets, Bags, TLC

\* ----------------------------------------------------------------- bounds
MaxDepth     == 2      \* publish calls in flight at once (nesting of re-entry)
MaxPublishes == 2      \* publish calls made in a run of SpecCount

\* ----------------------------------------------------------------- inputs
Topics    == {"foo", "bar"}
Data      == {"d1", "d2"}
NestData  == {"d1"}     \* payloads of Spec (the bus never reads a payload)
Callbacks == {"cbA", "cbB", "sub_cb_invalid"}     \* callable values
NotCallable == {"not a callback"}                 \* values callable() rejects
Values    == Callbacks \cup NotCallable
None      == "None"

VARIABLES
    dispatch,      \* self.dispatch: function  created topic -> set of callbacks
    stack,         \* in-flight publish calls, innermost last
    last,          \* the step just taken: call, arguments, outcome, log record
    count          \* SpecCount: per topic and callback, the calls received
                   \* (num_cb) and the publish calls begun while subscribed (due)

vars == <<dispatch, stack, last, count>>

\* ---------------------------------------------------------------- helpers
Top == stack[Len(stack)]

\* who can call the bus: the program at top level, or a callback whose body runs
CanCall == IF stack = <<>> THEN TRUE ELSE Top.cur # None

\* a call made by a running callback is a re-entrant call of that publish
MarkReentry(st) ==
    IF st = <<>> THEN st ELSE [st EXCEPT ![Len(st)].reentered = TRUE]

\* a log record: level, message template, the topic formatted into the
\* message, and the exception attached to it with the callable its traceback
\* or text names
NoLog == [level |-> None, msg |-> None, topic |-> None, exc |-> None,
          cb |-> None]

\* the step just taken: which call or step, how it ended, whether what it was
\* to add was there already, and the record it logged; done is the frame of
\* a publish that has just ended, arg tells of a subscribe whether the value
\* it was given is callable
Event(kind, result, existed, log) ==
    [kind |-> kind, result |-> result, existed |-> existed, log |-> log,
     done |-> None, arg |-> None]


\* number of elements of bag B that satisfy cb = c
RECURSIVE SumCopies(_, _)
SumCopies(B, S) ==
    IF S = {} THEN 0
    ELSE LET r == CHOOSE x \in S : TRUE
         IN  CopiesIn(r, B) + SumCopies(B, S \ {r})

\* number of evaluations of c(...) recorded in the bag of calls B
Count(B, c) == SumCopies(B, {r \in BagToSet(B) : r.cb = c})

\* ------------------------------------------------------------------- code
\* variant: the existence check never raises
check_topic_exists_never_raises(topic_name) == TRUE

\* _check_topic_exists: TRUE when it returns, FALSE when it raises ValueError
check_topic_exists(topic_name) == topic_name \in DOMAIN dispatch

\* variant: every value passes for a callable
callable_any(v) == TRUE

\* the builtin callable()
callable(v) == v \in Callbacks

\* what callable() makes of v
ArgKind(v) == IF callable(v) THEN "callable" ELSE "not callable"

\* variant: every callable binds (topic_name, data), e.g. def cb(*args)
AcceptsTwoArgs_any(v) == TRUE

\* whether v(topic_name, data) binds its arguments (sub_cb_invalid takes one)
AcceptsTwoArgs(v) == v # "sub_cb_invalid"

Init ==
    /\ dispatch = [t \in {} |-> {}]
    /\ stack = <<>>
    /\ count = [num_cb |-> [t \in Topics |-> [c \in Callbacks |-> 0]],
                due    |-> [t \in Topics |-> [c \in Callbacks |-> 0]],
                npub   |-> [t \in Topics |-> 0]]
    /\ last = Event("init", None, FALSE, NoLog)

\* variant: create_topic without the existence test resets the topic
CreateTopicResult_reset(topic_name) ==
    [t \in DOMAIN dispatch \cup {topic_name} |->
        IF t = topic_name THEN {} ELSE dispatch[t]]

\* the registry after create_topic(topic_name)
CreateTopicResult(topic_name) ==
    IF topic_name \in DOMAIN dispatch
    THEN dispatch
    ELSE [t \in DOMAIN dispatch \cup {topic_name} |->
            IF t = topic_name THEN {} ELSE dispatch[t]]

create_topic(topic_name) ==
    /\ CanCall
    /\ dispatch' = CreateTopicResult(topic_name)
    /\ stack' = MarkReentry(stack)
    /\ last' = Event("create_topic", "returned",
                     topic_name \in DOMAIN dispatch,
                     IF topic_name \in DOMAIN dispatch
                     THEN [NoLog EXCEPT !.level = "debug",
                                        !.msg = "Topic with name '%s' already exists",
                                        !.topic = topic_name]
                     ELSE NoLog)

\* variant: symmetric difference (s ^= {v}) in place of union (s |= {v})
SetAdd_toggle(s, v) == (s \ {v}) \cup ({v} \ s)

\* set.add
SetAdd(s, v) == s \cup {v}

\* variant: the callback is validated before the topic is looked up
SubscribeOutcome_callable_first(topic_name, data_callback) ==
    IF ~callable(data_callback) THEN "TypeError"
    ELSE IF ~check_topic_exists(topic_name) THEN "ValueError"
    ELSE "returned"

\* the outcome of subscribe(topic_name, data_callback)
SubscribeOutcome(topic_name, data_callback) ==
    IF ~check_topic_exists(topic_name) THEN "ValueError"
    ELSE IF ~callable(data_callback) THEN "TypeError"
    ELSE "returned"

\* variant: a topic that has had a publish replays it to a new subscriber
subscribe_replay(topic_name, data_callback) ==
    LET outcome == SubscribeOutcome(topic_name, data_callback) IN
    /\ CanCall
    /\ dispatch' = IF outcome = "returned"
                   THEN [dispatch EXCEPT ![topic_name] = SetAdd(@, data_callback)]
                   ELSE dispatch
    /\ stack' = IF outcome = "returned" /\ count.npub[topic_name] > 0
                       /\ data_callback \notin dispatch[topic_name]
                THEN Append(MarkReentry(stack),
                            [topic_name |-> topic_name, data |-> "d1",
                             si_used |-> Cardinality(SetAdd(dispatch[topic_name],
                                                            data_callback)),
                             remaining |-> {data_callback}, cur |-> None,
                             snapshot |-> {data_callback}, calls |-> EmptyBag,
                             failed |-> FALSE, reentered |-> FALSE])
                ELSE MarkReentry(stack)
    /\ last' = [Event("subscribe", outcome,
                      IF topic_name \in DOMAIN dispatch
                      THEN data_callback \in dispatch[topic_name] ELSE FALSE,
                      NoLog)
                EXCEPT !.arg = ArgKind(data_callback)]

\* variant: a callback is attached to one topic at a time, so subscribing it
\* moves it out of the other topics
subscribe_exclusive(topic_name, data_callback) ==
    LET outcome == SubscribeOutcome(topic_name, data_callback) IN
    /\ CanCall
    /\ dispatch' = IF outcome = "returned"
                   THEN [t \in DOMAIN dispatch |->
                           IF t = topic_name
                           THEN SetAdd(dispatch[t], data_callback)
                           ELSE dispatch[t] \ {data_callback}]
                   ELSE dispatch
    /\ stack' = MarkReentry(stack)
    /\ last' = [Event("subscribe", outcome,
                      IF topic_name \in DOMAIN dispatch
                      THEN data_callback \in dispatch[topic_name] ELSE FALSE,
                      NoLog)
                EXCEPT !.arg = ArgKind(data_callback)]

subscribe(topic_name, data_callback) ==
    LET outcome == SubscribeOutcome(topic_name, data_callback) IN
    /\ CanCall
    /\ dispatch' = IF outcome = "returned"
                   THEN [dispatch EXCEPT ![topic_name] = SetAdd(@, data_callback)]
                   ELSE dispatch
    /\ stack' = MarkReentry(stack)
    /\ last' = [Event("subscribe", outcome,
                      IF topic_name \in DOMAIN dispatch
                      THEN data_callback \in dispatch[topic_name] ELSE FALSE,
                      IF outcome = "TypeError"
                      THEN [NoLog EXCEPT !.level = "error",
                                         !.msg = "Attempted to add data callback that is not callable as callback for topic '%s'",
                                         !.topic = topic_name]
                      ELSE NoLog)
                EXCEPT !.arg = ArgKind(data_callback)]

\* variant: publish dispatches to the subscribers of every topic
PublishTargets_all(topic_name) == UNION {dispatch[t] : t \in DOMAIN dispatch}

\* the set the for statement of publish iterates
PublishTargets(topic_name) == dispatch[topic_name]

\* variant: a publish made while another is in flight is queued and runs
\* when the one in flight has ended
publish_deferred(topic_name, data) ==
    /\ CanCall
    /\ dispatch' = dispatch
    /\ IF ~check_topic_exists(topic_name)
       THEN /\ stack' = MarkReentry(stack)
            /\ last' = Event("publish", "ValueError", FALSE, NoLog)
       ELSE /\ Len(stack) < MaxDepth
            /\ stack' = <<[topic_name |-> topic_name, data |-> data,
                           si_used |-> Cardinality(PublishTargets(topic_name)),
                           remaining |-> PublishTargets(topic_name),
                           cur |-> None,
                           snapshot |-> dispatch[topic_name],
                           calls |-> EmptyBag,
                           failed |-> FALSE,
                           reentered |-> FALSE]>> \o MarkReentry(stack)
            /\ last' = Event("publish", "dispatching", TRUE, NoLog)

\* publish up to the creation of the iterator of the for statement
publish(topic_name, data) ==
    /\ CanCall
    /\ dispatch' = dispatch
    /\ IF ~check_topic_exists(topic_name)
       THEN /\ stack' = MarkReentry(stack)
            /\ last' = Event("publish", "ValueError", FALSE, NoLog)
       ELSE /\ Len(stack) < MaxDepth
            /\ stack' = Append(MarkReentry(stack),
                               [topic_name |-> topic_name, data |-> data,
                                si_used |-> Cardinality(PublishTargets(topic_name)),
                                remaining |-> PublishTargets(topic_name),
                                cur |-> None,
                                \* history of this call
                                snapshot |-> dispatch[topic_name],
                                calls |-> EmptyBag,
                                failed |-> FALSE,
                                reentered |-> FALSE])
            /\ last' = Event("publish", "dispatching", TRUE, NoLog)

\* variant: an iterator that any call made to the bus during the iteration
\* invalidates (a modification count instead of the size)
SizeChanged_any_reentry(f) == f.reentered

\* the state of the set iterator of frame f: next() raises RuntimeError when
\* the set no longer has the size it had when the iterator was created
SizeChanged(f) == Cardinality(PublishTargets(f.topic_name)) # f.si_used

\* the elements the iterator of frame f can produce next (order is unspecified)
IterCandidates(f) == f.remaining

\* variant: the payload is not passed on
CallArgs_no_data(f) == [topic |-> f.topic_name, data |-> None]

\* the arguments of sub_callback(topic_name, data)
CallArgs(f) == [topic |-> f.topic_name, data |-> f.data]

\* the record logger.exception writes: the fixed message and the exception
\* being handled (its traceback names the callable); the topic is not in it
ExceptionLog(cb, exc) ==
    [level |-> "error",
     msg |-> "Exception caught when calling subscriber data callback",
     topic |-> None, exc |-> exc, cb |-> cb]

\* leaving publish: the frame is popped and the outcome noted
Leave(outcome) ==
    /\ stack' = SubSeq(stack, 1, Len(stack) - 1)
    /\ last' = [Event("publish_exit", outcome, TRUE, NoLog) EXCEPT !.done = Top]
    /\ dispatch' = dispatch

\* the for statement asks the iterator for the next element and the set has
\* changed size: RuntimeError, raised outside the try, leaves publish
publish_size_changed ==
    /\ stack # <<>>
    /\ Top.cur = None
    /\ SizeChanged(Top)
    /\ Leave("RuntimeError")

\* variant: publish returns before the iterator is exhausted
publish_return_early ==
    /\ stack # <<>>
    /\ Top.cur = None
    /\ ~SizeChanged(Top)
    /\ Leave("returned")

\* the iterator is exhausted: publish returns
publish_return ==
    /\ stack # <<>>
    /\ Top.cur = None
    /\ ~SizeChanged(Top)
    /\ IterCandidates(Top) = {}
    /\ Leave("returned")

\* variant: the iterator does not advance, so the loop produces the same
\* subscriber again
publish_call_no_advance(sub_callback) ==
    /\ stack # <<>>
    /\ Top.cur = None
    /\ ~SizeChanged(Top)
    /\ sub_callback \in IterCandidates(Top)
    /\ LET called == [Top EXCEPT
                        !.calls = @ (+) SetToBag({[cb |-> sub_callback,
                                                   topic |-> CallArgs(Top).topic,
                                                   data |-> CallArgs(Top).data]})]
       IN  IF AcceptsTwoArgs(sub_callback)
           THEN /\ stack' = [stack EXCEPT ![Len(stack)] =
                                [called EXCEPT !.cur = sub_callback]]
                /\ last' = Event("call", "entered", TRUE, NoLog)
           ELSE /\ stack' = [stack EXCEPT ![Len(stack)] =
                                [called EXCEPT !.failed = TRUE]]
                /\ last' = Event("call", "caught", TRUE,
                                 ExceptionLog(sub_callback, "TypeError"))
    /\ dispatch' = dispatch

\* variant: the loop walks the live registry entry without the size test of
\* the set iterator, so it also reaches callbacks added while it runs
publish_call_live(sub_callback) ==
    /\ stack # <<>>
    /\ Top.cur = None
    /\ sub_callback \in PublishTargets(Top.topic_name)
    /\ \A r \in BagToSet(Top.calls) : r.cb # sub_callback
    /\ LET called == [Top EXCEPT
                        !.remaining = @ \ {sub_callback},
                        !.calls = @ (+) SetToBag({[cb |-> sub_callback,
                                                   topic |-> CallArgs(Top).topic,
                                                   data |-> CallArgs(Top).data]})]
       IN  IF AcceptsTwoArgs(sub_callback)
           THEN /\ stack' = [stack EXCEPT ![Len(stack)] =
                                [called EXCEPT !.cur = sub_callback]]
                /\ last' = Event("call", "entered", TRUE, NoLog)
           ELSE /\ stack' = [stack EXCEPT ![Len(stack)] =
                                [called EXCEPT !.failed = TRUE]]
                /\ last' = Event("call", "caught", TRUE,
                                 ExceptionLog(sub_callback, "TypeError"))
    /\ dispatch' = dispatch

\* the iterator produces sub_callback and the loop body calls it; a callable
\* that does not take two arguments raises TypeError at once, which the
\* except clause catches and logs
publish_call(sub_callback) ==
    /\ stack # <<>>
    /\ Top.cur = None
    /\ ~SizeChanged(Top)
    /\ sub_callback \in IterCandidates(Top)
    /\ LET called == [Top EXCEPT
                        !.remaining = @ \ {sub_callback},
                        !.calls = @ (+) SetToBag({[cb |-> sub_callback,
                                                   topic |-> CallArgs(Top).topic,
                                                   data |-> CallArgs(Top).data]})]
       IN  IF AcceptsTwoArgs(sub_callback)
           THEN /\ stack' = [stack EXCEPT ![Len(stack)] =
                                [called EXCEPT !.cur = sub_callback]]
                /\ last' = Event("call", "entered", TRUE, NoLog)
           ELSE /\ stack' = [stack EXCEPT ![Len(stack)] =
                                [called EXCEPT !.failed = TRUE]]
                /\ last' = Event("call", "caught", TRUE,
                                 ExceptionLog(sub_callback, "TypeError"))
    /\ dispatch' = dispatch

\* the running callback returns
callback_return ==
    /\ stack # <<>>
    /\ Top.cur # None
    /\ stack' = [stack EXCEPT ![Len(stack)].cur = None]
    /\ last' = Event("callback", "returned", TRUE, NoLog)
    /\ dispatch' = dispatch

\* variant: the try statement is around the whole loop, so the first
\* exception ends the dispatch
callback_raise_ends_loop ==
    /\ stack # <<>>
    /\ Top.cur # None
    /\ stack' = [stack EXCEPT ![Len(stack)].cur = None,
                              ![Len(stack)].failed = TRUE,
                              ![Len(stack)].remaining = {}]
    /\ last' = Event("callback", "caught", TRUE,
                     ExceptionLog(Top.cur, "Exception"))
    /\ dispatch' = dispatch

\* variant: the except clause also drops the subscriber that raised
callback_raise_unsubscribes ==
    /\ stack # <<>>
    /\ Top.cur # None
    /\ stack' = [stack EXCEPT ![Len(stack)].cur = None,
                              ![Len(stack)].failed = TRUE]
    /\ last' = Event("callback", "caught", TRUE,
                     ExceptionLog(Top.cur, "Exception"))
    /\ dispatch' = [dispatch EXCEPT ![Top.topic_name] = @ \ {Top.cur}]

\* the running callback raises: the except clause catches and logs, and the
\* loop goes on
callback_raise ==
    /\ stack # <<>>
    /\ Top.cur # None
    /\ stack' = [stack EXCEPT ![Len(stack)].cur = None,
                              ![Len(stack)].failed = TRUE]
    /\ last' = Event("callback", "caught", TRUE,
                     ExceptionLog(Top.cur, "Exception"))
    /\ dispatch' = dispatch

\* ---------------------------------------------------------- specifications
\* Spec: any program, callbacks that return, raise or call back into the bus
Next ==
    \/ \E t \in Topics : create_topic(t) /\ UNCHANGED count
    \/ \E t \in Topics, v \in Values : subscribe(t, v) /\ UNCHANGED count
    \/ \E t \in Topics, d \in NestData : publish(t, d) /\ UNCHANGED count
    \/ publish_size_changed /\ UNCHANGED count
    \/ publish_return /\ UNCHANGED count
    \/ \E c \in Callbacks : publish_call(c) /\ UNCHANGED count
    \/ callback_return /\ UNCHANGED count
    \/ callback_raise /\ UNCHANGED count

Spec == Init /\ [][Next]_vars

\* SpecCount: a program that calls the bus at top level only, with callbacks
\* that count their calls as the subscribers of the test suite do
\* (self.num_cb += 1) and then return or raise
TotalPublishes == count.npub["foo"] + count.npub["bar"]

CountPublish(t) ==
    IF t \in DOMAIN dispatch
    THEN [count EXCEPT !.npub[t] = @ + 1,
                       !.due[t] = [c \in Callbacks |->
                                     IF c \in dispatch[t] THEN @[c] + 1 ELSE @[c]]]
    ELSE count

CountCall(f, c) ==
    IF AcceptsTwoArgs(c)
    THEN [count EXCEPT !.num_cb[CallArgs(f).topic][c] = @ + 1]
    ELSE count

NextCount ==
    \/ \E t \in Topics : stack = <<>> /\ create_topic(t) /\ UNCHANGED count
    \/ \E t \in Topics, v \in Values :
          stack = <<>> /\ subscribe(t, v) /\ UNCHANGED count
    \/ \E t \in Topics, d \in Data :
          /\ stack = <<>>
          /\ TotalPublishes < MaxPublishes
          /\ publish(t, d)
          /\ count' = CountPublish(t)
    \/ publish_return /\ UNCHANGED count
    \/ \E c \in Callbacks : publish_call(c) /\ count' = CountCall(Top, c)
    \/ callback_return /\ UNCHANGED count
    \/ callback_raise /\ UNCHANGED count

SpecCount == Init /\ [][NextCount]_vars

\* SpecTerm: SpecCount with the interpreter going on with a publish it has
\* begun: the for statement takes its next step, and a callback that was
\* called returns or raises
DispatchStep ==
    \/ publish_return /\ UNCHANGED count
    \/ \E c \in Callbacks : publish_call(c) /\ count' = CountCall(Top, c)
    \/ callback_return /\ UNCHANGED count
    \/ callback_raise /\ UNCHANGED count

SpecTerm == Init /\ [][NextCount]_vars /\ WF_vars(DispatchStep)

\* ------------------------------------------------------------- properties
\* the calls recorded in the frames of a stack, frame by frame
CallsOf(st) == [i \in 1..Len(st) |-> st[i].calls]

\* every call a publish made carried the arguments of that publish
ArgsOK(f) ==
    \A r \in BagToSet(f.calls) : r.topic = f.topic_name /\ r.data = f.data

Exited == last.kind = "publish_exit"

\* C1 -- fault isolation: a publish in which a callback raised, and during
\* which nobody was added to the topic, has called every subscriber of the
\* topic exactly once with its own (topic, data) and has returned normally.
FaultIsolation ==
    (/\ Exited
     /\ last.done.failed
     /\ dispatch[last.done.topic_name] = last.done.snapshot)
    => /\ last.result = "returned"
       /\ \A c \in last.done.snapshot : Count(last.done.calls, c) = 1
       /\ ArgsOK(last.done)

\* a publish on a topic with two or more subscribers, one of which raised
\* from its body, has ended
FaultIsolationWitness ==
    /\ Exited
    /\ last.done.failed
    /\ ~last.done.reentered
    /\ Cardinality(last.done.snapshot \ {"sub_cb_invalid"}) >= 2
    /\ last.result = "returned"

\* C2 -- publish never fails because of what a subscriber does: whatever the
\* callbacks did, re-entrant subscribe included, every publish returns
\* normally after calling every callback subscribed when it started.
PublishNeverFails ==
    Exited => /\ last.result = "returned"
              /\ \A c \in last.done.snapshot : Count(last.done.calls, c) = 1

\* C3 -- a publish or subscribe on a topic that was never created raises
\* ValueError, changes nothing in the registry and calls no callback; on a
\* created topic neither raises ValueError.  (Every step that is such a call
\* has the outcome: the outcome holds or the step is no such call.)
NotFoundOutcome(t) ==
    IF t \notin DOMAIN dispatch
    THEN /\ last'.result = "ValueError"
         /\ dispatch' = dispatch
         /\ Len(stack') = Len(stack)
         /\ CallsOf(stack') = CallsOf(stack)
    ELSE last'.result # "ValueError"

TopicNotFound ==
    [][\A t \in Topics :
          \/ last'.kind \notin {"subscribe", "publish"}
          \/ NotFoundOutcome(t)
          \/ /\ ~ \E v \in Values : subscribe(t, v)
             /\ ~ \E d \in Data : publish(t, d)]_vars

\* a call on a missing topic has failed while another topic has subscribers
TopicNotFoundWitness ==
    /\ last.kind \in {"publish", "subscribe"}
    /\ last.result = "ValueError"
    /\ \E t \in DOMAIN dispatch : dispatch[t] # {}

\* C4 -- exactly-once delivery: a publish whose callbacks do not call the bus
\* returns normally having called each callback of the topic's set at the
\* time of the call exactly once, with (topic, data), and no other callback
\* (none at all when the set was empty).
ExactlyOnce ==
    Exited =>
       /\ last.result = "returned"
       /\ \A c \in Callbacks :
             Count(last.done.calls, c) = IF c \in last.done.snapshot THEN 1 ELSE 0
       /\ ArgsOK(last.done)

\* a publish to two or more subscribers has returned
ExactlyOnceWitness ==
    /\ Exited
    /\ last.result = "returned"
    /\ Cardinality(last.done.snapshot) >= 2
    /\ last.done.data = "d2"

\* C5 -- topic isolation: every call made by a publish on a topic goes to a
\* callback subscribed to that topic and carries that topic's name, so a
\* callback subscribed to another topic only is never called.
CallsStayOnTopic(f) ==
    \A r \in BagToSet(f.calls) :
        r.topic = f.topic_name /\ r.cb \in dispatch[f.topic_name]

TopicIsolation ==
    /\ \A i \in 1..Len(stack) : CallsStayOnTopic(stack[i])
    /\ Exited => CallsStayOnTopic(last.done)

\* a publish has ended after calling its subscribers while another topic has
\* a subscriber of its own
TopicIsolationWitness ==
    /\ Exited
    /\ last.done.calls # EmptyBag
    /\ \E t \in DOMAIN dispatch :
          /\ t # last.done.topic_name
          /\ dispatch[t] \ dispatch[last.done.topic_name] # {}

\* C6 -- no replay: a callback has received from a topic at most one call per
\* publish begun on that topic while it was subscribed, and none at all while
\* it is not subscribed, however many publishes the topic has had.
NoReplay ==
    \A t \in Topics : \A c \in Callbacks :
        /\ count.num_cb[t][c] <= count.due[t][c]
        /\ (t \notin DOMAIN dispatch \/ c \notin dispatch[t])
              => count.num_cb[t][c] = 0

\* a callback subscribed after the first of two publishes got one call only
NoReplayWitness ==
    /\ stack = <<>>
    /\ \E t \in DOMAIN dispatch : \E c \in dispatch[t] :
          /\ count.npub[t] = 2
          /\ count.due[t][c] = 1
          /\ count.num_cb[t][c] = 1

\* C7 -- create_topic of an existing topic returns normally and leaves every
\* subscriber set, and every dispatch in flight, as it was.
CreateTopicIdempotent ==
    [][\A t \in DOMAIN dispatch :
          \/ last'.kind # "create_topic"
          \/ /\ last'.result = "returned"
             /\ dispatch' = dispatch
             /\ Len(stack') = Len(stack)
             /\ CallsOf(stack') = CallsOf(stack)
          \/ ~create_topic(t)]_vars

\* create_topic was called for a topic that exists, and every topic that
\* exists has subscribers
CreateTopicIdempotentWitness ==
    /\ last.kind = "create_topic"
    /\ last.existed
    /\ \A t \in DOMAIN dispatch : dispatch[t] # {}

\* C8 -- subscribe of a value that is not callable to an existing topic
\* raises TypeError and leaves the registry as it was.
InvalidCallbackRejected ==
    [][\A t \in DOMAIN dispatch : \A v \in NotCallable :
          \/ last'.kind # "subscribe"
          \/ /\ last'.result = "TypeError"
             /\ dispatch' = dispatch
             /\ \A u \in DOMAIN dispatch' : dispatch'[u] \subseteq Callbacks
          \/ ~subscribe(t, v)]_vars

\* a value that is not callable was refused, and every topic has subscribers
InvalidCallbackRejectedWitness ==
    /\ last.kind = "subscribe"
    /\ last.result = "TypeError"
    /\ DOMAIN dispatch = Topics
    /\ \A t \in DOMAIN dispatch : dispatch[t] # {}

\* C9 -- subscribe is set-idempotent: subscribing a callback that is already
\* in the topic's set returns normally and leaves the registry as it was, and
\* no publish calls a callback more than once.
SubscribeIdempotent ==
    /\ [][\A t \in DOMAIN dispatch : \A c \in dispatch[t] :
            \/ last'.kind # "subscribe"
            \/ (last'.result = "returned" /\ dispatch' = dispatch)
            \/ ~subscribe(t, c)]_vars
    /\ [](\A i \in 1..Len(stack) : \A r \in BagToSet(stack[i].calls) :
              Count(stack[i].calls, r.cb) = 1)

\* a callback was subscribed again, and every topic has other subscribers too
SubscribeIdempotentWitness ==
    /\ last.kind = "subscribe"
    /\ last.existed
    /\ last.result = "returned"
    /\ \A t \in DOMAIN dispatch : Cardinality(dispatch[t]) >= 2

\* C10 -- delivery count: between publishes, the calls a callback has
\* received over all topics are as many as the publishes begun on a topic
\* while the callback was subscribed to it.
RECURSIVE SumOver(_, _, _)
SumOver(F, c, S) ==
    IF S = {} THEN 0
    ELSE LET t == CHOOSE x \in S : TRUE
         IN  F[t][c] + SumOver(F, c, S \ {t})

DeliveryCount ==
    stack = <<>> =>
       \A c \in Callbacks : AcceptsTwoArgs(c) =>
          SumOver(count.num_cb, c, Topics) = SumOver(count.due, c, Topics)

\* one callback subscribed to both topics has received a publish of each
DeliveryCountWitness ==
    /\ stack = <<>>
    /\ \E c \in Callbacks :
          /\ \A t \in Topics : t \in DOMAIN dispatch /\ c \in dispatch[t]
          /\ \A t \in Topics : count.num_cb[t][c] = 1

\* C11 -- the registry only grows: no step of any call, successful or
\* failing, removes a topic or takes a callback out of a topic's set.
RegistryOnlyGrows ==
    [][/\ DOMAIN dispatch \subseteq DOMAIN dispatch'
       /\ \A t \in DOMAIN dispatch : dispatch[t] \subseteq dispatch'[t]]_vars

\* with both topics created and subscribed to, a subscribe has failed or a
\* publish has been ended by RuntimeError
RegistryOnlyGrowsWitness ==
    /\ DOMAIN dispatch = Topics
    /\ \A t \in Topics : Cardinality(dispatch[t]) >= 2
    /\ last.result \in {"TypeError", "RuntimeError"}

\* C12 -- a publish calls a callback only if the callback was in the topic's
\* set when the publish began to iterate it: a callback added to the topic
\* while the publish is in flight is never called by that publish.
CalledOnlyIfSubscribedBefore(f) ==
    \A r \in BagToSet(f.calls) : r.cb \in f.snapshot

SubscribedBeforeDispatch ==
    /\ \A i \in 1..Len(stack) : CalledOnlyIfSubscribedBefore(stack[i])
    /\ Exited => CalledOnlyIfSubscribedBefore(last.done)

\* a publish that had called a subscriber has ended, and a callback that
\* was added to its topic while it was in flight is in the topic's set
SubscribedBeforeDispatchWitness ==
    /\ Exited
    /\ last.done.reentered
    /\ last.done.calls # EmptyBag
    /\ dispatch[last.done.topic_name] \ last.done.snapshot # {}

\* C13 -- every subscriber failure caught by a publish is logged with its
\* full context: the topic of the publish, the callback that failed and the
\* error, one record per failing call.
FailureLogHasContext ==
    last.result = "caught" =>
       /\ last.log.level = "error"
       /\ last.log.topic = Top.topic_name
       /\ last.log.cb \in Top.snapshot
       /\ last.log.exc \in {"Exception", "TypeError"}

\* C14 -- a callable that does not take (topic_name, data) is accepted by
\* subscribe; a publish never runs its body, the failed call is caught and
\* logged like any other, and the publish (nobody being added to the topic
\* meanwhile) returns normally having called every subscriber exactly once
\* with its own (topic, data).
WrongSignatureContained ==
    /\ [][\A t \in DOMAIN dispatch :
            \/ last'.kind # "subscribe"
            \/ (last'.result = "returned" /\ "sub_cb_invalid" \in dispatch'[t])
            \/ ~subscribe(t, "sub_cb_invalid")]_vars
    /\ [](\A i \in 1..Len(stack) : stack[i].cur # "sub_cb_invalid")
    /\ []((/\ Exited
           /\ "sub_cb_invalid" \in last.done.snapshot
           /\ dispatch[last.done.topic_name] = last.done.snapshot)
          => /\ last.result = "returned"
             /\ last.done.failed
             /\ \A c \in last.done.snapshot : Count(last.done.calls, c) = 1
             /\ ArgsOK(last.done))

\* a publish to sub_cb_invalid and two other subscribers has returned
WrongSignatureContainedWitness ==
    /\ Exited
    /\ last.result = "returned"
    /\ last.done.snapshot = Callbacks
    /\ dispatch[last.done.topic_name] = last.done.snapshot

\* C15 -- publish has no effect of its own on the registry: no step of a
\* publish (the failed existence check, the iteration, a call that returns
\* or raises, the return or the RuntimeError) changes the registry, so a
\* publish whose callbacks did not call the bus ends with the topic's set as
\* it found it.
PublishSteps == {"publish", "call", "callback", "publish_exit"}

PublishLeavesRegistry ==
    /\ [][last'.kind \in PublishSteps => dispatch' = dispatch]_vars
    /\ []((Exited /\ ~last.done.reentered)
            => dispatch[last.done.topic_name] = last.done.snapshot)

\* with both topics created and subscribed to, a publish in which a
\* callback raised and none called the bus has ended
PublishLeavesRegistryWitness ==
    /\ Exited
    /\ last.done.failed
    /\ ~last.done.reentered
    /\ DOMAIN dispatch = Topics
    /\ \A t \in Topics : dispatch[t] # {}
    /\ last.done.calls # EmptyBag

\* C16 -- publish is synchronous and a nested publish runs to completion
\* inside the outer one: a publish that returns has called every subscriber
\* it found and each call has ended, nothing being left for later; while a
\* publish made by a callback is in flight the outer publish stays inside
\* that callback and makes no call; the nested publish that returns has
\* called all its subscribers with its own (topic, data); and the outer
\* publish goes on with what it had left, ending otherwise than by a normal
\* return only when its topic's set has changed size.
NestedPublishCompletes ==
    /\ [][\A i \in 1..(Len(stack) - 1) :
            Len(stack') >= i /\ stack'[i] = stack[i]]_vars
    /\ [](\A i \in 1..(Len(stack) - 1) : stack[i].cur # None)
    /\ []((Exited /\ last.result = "returned")
            => /\ last.done.remaining = {}
               /\ last.done.cur = None
               /\ \A c \in last.done.snapshot : Count(last.done.calls, c) = 1
               /\ BagCardinality(last.done.calls) = Cardinality(last.done.snapshot)
               /\ ArgsOK(last.done))
    /\ []((Exited /\ last.result # "returned")
            => Cardinality(dispatch[last.done.topic_name])
                  # Cardinality(last.done.snapshot))

\* a publish made by a callback, on another topic than the publish in
\* flight, has called its subscribers and returned while the outer publish
\* still has subscribers to call
NestedPublishCompletesWitness ==
    /\ Exited
    /\ last.result = "returned"
    /\ last.done.calls # EmptyBag
    /\ stack # <<>>
    /\ Top.topic_name # last.done.topic_name
    /\ Top.cur # None
    /\ Top.remaining # {}

\* C17 -- re-entrant calls that leave the size of the iterated set alone do
\* not disturb the publish in flight: a create_topic or subscribe made by a
\* callback, the set of the publish's topic keeping its size, leaves the
\* iteration of every publish in flight as it was and takes effect in the
\* registry (what was not there is there afterwards); and a publish whose
\* callbacks called the bus, its topic's set keeping its size, returns
\* normally having called each subscriber exactly once with (topic, data).
ReentrantCall ==
    /\ stack # <<>>
    /\ last'.kind \in {"create_topic", "subscribe"}
    /\ Cardinality(dispatch'[Top.topic_name])
          = Cardinality(dispatch[Top.topic_name])

SameSizeReentryHarmless ==
    /\ [][ReentrantCall =>
            /\ Len(stack') = Len(stack)
            /\ [stack' EXCEPT ![Len(stack)].reentered = Top.reentered] = stack
            /\ (last'.result = "returned" /\ ~last'.existed)
                  => dispatch' # dispatch
            /\ last'.kind = "create_topic" => last'.result = "returned"]_vars
    /\ []((/\ Exited
           /\ last.done.reentered
           /\ Cardinality(dispatch[last.done.topic_name])
                 = Cardinality(last.done.snapshot))
          => /\ last.result = "returned"
             /\ \A c \in last.done.snapshot : Count(last.done.calls, c) = 1
             /\ ArgsOK(last.done))

\* a callback of a publish that has called one subscriber and has another
\* left has subscribed a new callback to another topic
SameSizeReentryHarmlessWitness ==
    /\ last.kind = "subscribe"
    /\ last.result = "returned"
    /\ ~last.existed
    /\ stack # <<>>
    /\ Top.cur # None
    /\ Top.remaining # {}
    /\ Top.reentered
    /\ dispatch[Top.topic_name] = Top.snapshot

\* C18 -- subscribe looks the topic up before it validates the callback: a
\* subscribe of a value that is not callable to a topic that was never
\* created raises ValueError, logs no callback error and leaves the registry
\* as it was; a TypeError is only ever raised for a topic that exists.
NotFoundBeforeInvalid ==
    /\ last'.result = "ValueError"
    /\ last'.log = NoLog
    /\ dispatch' = dispatch

TopicCheckedFirst ==
    [][last'.kind = "subscribe" =>
         /\ \A t \in Topics \ DOMAIN dispatch : \A v \in NotCallable :
               NotFoundBeforeInvalid \/ ~subscribe(t, v)
         /\ (last'.arg = "not callable" /\ DOMAIN dispatch = {})
               => NotFoundBeforeInvalid
         /\ last'.result = "TypeError"
               => /\ last'.arg = "not callable"
                  /\ last'.log.topic \in DOMAIN dispatch]_vars

\* a subscribe of a value that is not callable has raised ValueError while
\* the other topic exists and has subscribers
TopicCheckedFirstWitness ==
    /\ last.kind = "subscribe"
    /\ last.arg = "not callable"
    /\ last.result = "ValueError"
    /\ \E t \in DOMAIN dispatch : dispatch[t] # {}

\* C19 -- termination: create_topic and subscribe end in the step that
\* makes them; a publish on a missing topic ends at once with ValueError; a
\* publish whose callbacks return or raise without calling the bus ends, and
\* it makes no more calls than the topic had subscribers when it began.
CallsBounded(f) == BagCardinality(f.calls) <= Cardinality(f.snapshot)

PublishTerminates ==
    /\ (last.kind = "publish" /\ last.result = "dispatching") ~> Exited
    /\ (stack # <<>>) ~> (stack = <<>>)
    /\ [](last.kind \in {"create_topic", "subscribe"}
            => last.result \in {"returned", "ValueError", "TypeError"})
    /\ []((last.kind = "publish" /\ last.result # "dispatching")
            => (last.result = "ValueError" /\ stack = <<>>))
    /\ [](\A i \in 1..Len(stack) : CallsBounded(stack[i]))
    /\ [](Exited => CallsBounded(last.done))

\* a publish to three subscribers, one of which failed, has ended after
\* another publish
PublishTerminatesWitness ==
    /\ Exited
    /\ stack = <<>>
    /\ last.done.snapshot = Callbacks
    /\ last.done.failed
    /\ TotalPublishes = 2

TypeOK ==
    /\ DOMAIN dispatch \subseteq Topics
    /\ \A t \in DOMAIN dispatch : dispatch[t] \subseteq Callbacks
    /\ Len(stack) <= MaxDepth

====
